---- MODULE Spec2Model ----
(***************************************************************************)
(* lambdaroach: the site registry (addSite, findSite, matchSite), the      *)
(* admin upload handler (handleConnection), the process supervisor         *)
(* (launch, stop and its drain task) and the proxy path (serve).           *)
(*                                                                         *)
(* A *Site is the index of its descriptor in the history list `sites`; a   *)
(* *RunningSite is the index of its record in `runs`; 0 is nil.            *)
(* Critical sections of the registry lock `lock` hold no I/O and are one   *)
(* step each; `launchlock` spans the launch and is a variable.             *)
(***************************************************************************)
EXTENDS Integers, Sequences, FiniteSets, TLC

\* ---------------------------------------------------------------- bounds
MaxSites == 3      \* descriptors ever added by addSite
MaxServed == 2     \* descriptors added while requests are served
MaxRuns == 2       \* calls to launch
MaxProcs == 2      \* concurrent http requests (goroutines running serve)
MaxAdmins == 2     \* concurrent admin connections
MaxLen == 3        \* length of the strings given to StartsWith and EndsWith
MaxFiles == 2      \* files in one upload on the wire
MaxContent == 2    \* bytes of content of one file on the wire
MaxCerts == 4      \* different certificate ids
MaxTries == 0      \* where Spec stops counting the drain task's polls
TickSeconds == 10  \* seconds that pass in one step of the clock

\* ------------------------------------------------------ program constants
ErrorRetrySeconds == 5    \* serve: an errored RunningSite is cleared after 5 s
WarmupSeconds == 20       \* serve: dial retries until 20 s after start
ForceTries == 100         \* stop: "if tries > 100" of the drain task
FirstPort == 15000        \* var port = 15000
FileSizeLimit == 10485760 \* handleConnection: file.Size > 10*1024*1024
DefaultFilePerm == 436    \* cleanFilePerm: 0664
DefaultDirPerm == 493     \* cleanDirPerm: 0755
ModePerm == 511           \* os.ModePerm, 0777
ModeSticky == 1048576     \* os.ModeSticky, 1 << 20
ModeSetgid == 4194304     \* os.ModeSetgid, 1 << 22
ModeSetuid == 8388608     \* os.ModeSetuid, 1 << 23

Procs == 1..MaxProcs
Admins == 1..MaxAdmins

Names == {"a", "b"}
Hosts == {"h1", "localhost"}
\* app.Hosts as uploaded: a list, which may name the pseudo-host itself
HostLists == {<<"h1">>, <<"h1", "localhost">>}
Commands == {"", "run ${PORT}"}

\* strings that are compared by prefix are sequences of characters
Slash == <<"/">>
RequestPaths == {<<"/">>, <<"/", "a">>, <<"*">>}
\* the Host header of a request, split at ":" (host, then the port if any)
HostHeaders == {<<"h1">>, <<"h1", "8000">>, <<"localhost", "8000">>, <<"h2">>}

AppMessages == [name : Names, hosts : HostLists, command : Commands, httpsOnly : BOOLEAN]
\* a request as serve reads it: r.Host, r.RequestURI, r.TLS != nil
Requests == [host : HostHeaders, path : RequestPaths, tls : BOOLEAN]

\* the requests and the uploads the server specification Spec draws from
ServeRequests ==
    {rq \in Requests : /\ rq.tls = FALSE
                       /\ \/ rq.host = <<"h1", "8000">> /\ rq.path = <<"/", "a">>
                          \/ rq.host = <<"h2">> /\ rq.path = Slash}

ServeApps ==
    {m \in AppMessages : /\ m.httpsOnly = FALSE
                         /\ m.hosts = <<"h1">>
                         /\ m.name = "a"
                         /\ m.command # ""}

VARIABLES
    sites,        \* var sites []*Site: every descriptor ever added
    latestSites,  \* var latestSites []*Site (indexes into sites)
    routes,       \* var routes map[string][]*Site
    running,      \* Site.running of every descriptor (index into runs, 0 = nil)
    port,         \* var port
    runs,         \* every RunningSite ever made by launch, with its child
    launchlock,   \* holder of launchlock (a request), 0 = free
    req,          \* the requests: position in serve and its locals
    adm,          \* the admin connections: position in handleConnection
    crashed,      \* the process ended in panic or log.Fatal
    probe,        \* a call of a function of package shared: arguments, result
    lock,         \* var lock sync.RWMutex: the writer and the readers holding it
    certificates, \* tlsConfig.Certificates
    certHashes    \* var certHashes: the ids of the certificates

vars == <<sites, latestSites, routes, running, port, runs, launchlock, req, adm, crashed,
          probe, lock, certificates, certHashes>>

registry == <<sites, latestSites, routes, running>>

\* the certificates of the https listener
tlsStore == <<certificates, certHashes>>

\* ------------------------------------------------------------- helpers
Range(s) == {s[i] : i \in 1..Len(s)}

\* the length test left out of StartsWith: equal strings only
StartsWithWhole(s, prefix) == s = prefix

\* shared.StartsWith
StartsWith(s, prefix) ==
    IF Len(s) < Len(prefix) THEN FALSE
    ELSE SubSeq(s, 1, Len(prefix)) = prefix

\* shared.EndsWith
EndsWith(s, postfix) ==
    IF Len(s) < Len(postfix) THEN FALSE
    ELSE SubSeq(s, Len(s) - Len(postfix) + 1, Len(s)) = postfix

\* byVersion.Less over the descriptors ss
Less(ss, a, b) == ss[a].version > ss[b].version

\* every arrangement of the list s
Perms(s) ==
    {[i \in 1..Len(s) |-> s[f[i]]] : f \in Permutations(1..Len(s))}

\* sort.Sort left out: the list as appended
SortMissing(ss, list) == {list}

\* sort.Sort with Less turned around: ascending by version
SortAscending(ss, list) ==
    {t \in Perms(list) : \A i \in 1..(Len(t) - 1) : ~Less(ss, t[i], t[i + 1])}

\* sort.Sort(byVersion(list)): the list ordered by Less; sort.Sort is not
\* stable, so entries with equal versions come out in any order
SortByVersion(ss, list) ==
    {t \in Perms(list) : \A i \in 1..(Len(t) - 1) : ~Less(ss, t[i + 1], t[i])}

\* addSite, lines 94-97: for each hostname append the new descriptor n to
\* routes[host] and sort; the set of route tables this can leave
RECURSIVE RouteHosts(_, _, _, _)
RouteHosts(ss, r, hostnames, n) ==
    IF hostnames = <<>> THEN {r}
    ELSE UNION {RouteHosts(ss, [r EXCEPT ![Head(hostnames)] = srt], Tail(hostnames), n) :
                    srt \in SortByVersion(ss, Append(r[Head(hostnames)], n))}

\* the pseudo-host left as the hostname loop made it when ids are several
RouteLocalhostKept(ss, r, latest, n) ==
    IF Len(latest) = 1
    THEN {[r EXCEPT !["localhost"] = srt] :
              srt \in SortByVersion(ss, Append(r["localhost"], n))}
    ELSE {r}

\* addSite, lines 99-104: the pseudo-host "localhost"
RouteLocalhost(ss, r, latest, n) ==
    IF Len(latest) = 1
    THEN {[r EXCEPT !["localhost"] = srt] :
              srt \in SortByVersion(ss, Append(r["localhost"], n))}
    ELSE {[r EXCEPT !["localhost"] = <<>>]}

\* addSite, lines 79-88: the first entry of latestSites with this id, or 0
LatestIndex(id) ==
    LET c == {i \in 1..Len(latestSites) : sites[latestSites[i]].id = id}
    IN IF c = {} THEN 0 ELSE CHOOSE i \in c : \A j \in c : i <= j

\* addSite(site): under lock; panics on a known (id, version) of latestSites
addSite(site) ==
    LET idx == LatestIndex(site.id)
        n == Len(sites) + 1
        ss == Append(sites, site)
        latest == IF idx # 0 THEN [latestSites EXCEPT ![idx] = n]
                  ELSE Append(latestSites, n)
    IN IF idx # 0 /\ sites[latestSites[idx]].version = site.version
       THEN /\ crashed' = TRUE
            /\ UNCHANGED registry
       ELSE /\ latestSites' = latest
            /\ sites' = ss
            /\ running' = Append(running, 0)
            /\ \E r \in RouteHosts(ss, routes, site.hostnames, n) :
                   routes' \in RouteLocalhost(ss, r, latest, n)
            /\ UNCHANGED crashed

\* findSite(id): the first descriptor of the highest version with this id, or 0
RECURSIVE findSiteFrom(_, _, _)
findSiteFrom(id, i, res) ==
    IF i > Len(sites) THEN res
    ELSE IF sites[i].id = id /\ (res = 0 \/ sites[res].version < sites[i].version)
         THEN findSiteFrom(id, i + 1, i)
         ELSE findSiteFrom(id, i + 1, res)

findSite(id) == findSiteFrom(id, 1, 0)

\* matchSite(host, path): the first descriptor of routes[host] one of whose
\* paths is a prefix of path, with its running field; <<0, 0>> is (nil, nil)
matchSite(host, path) ==
    LET list == IF host \in DOMAIN routes THEN routes[host] ELSE <<>>
        hits == {i \in 1..Len(list) :
                    \E k \in 1..Len(sites[list[i]].paths) :
                        StartsWith(path, sites[list[i]].paths[k])}
    IN IF hits = {} THEN <<0, 0>>
       ELSE LET first == CHOOSE i \in hits : \A j \in hits : i <= j
            IN <<list[first], running[list[first]]>>

\* ------------------------------------------------------ the admin handler
\* fileSize, perm, dir: of the last FileMessage the handler read, its Size,
\* its Perm and whether its Name ends in "/"; mode: the os.FileMode the
\* handler made the file or directory with; base: the bundle directory
\* /tmp/<id> ("" before it is made, then "created" or "removed"); status: the
\* Ok of the Status the handler wrote ("" before it writes one)
IdleAdmin == [pc |-> "idle", app |-> <<>>, version |-> 0, fileSize |-> 0,
              perm |-> 0, dir |-> FALSE, mode |-> 0, base |-> "", status |-> ""]

\* what handleConnection keeps of the FileMessage it read
Received(a, file) ==
    [a EXCEPT !.fileSize = file.size, !.perm = file.perm, !.dir = file.dir]

\* the handler returns, after errorConnection or after addSite: the
\* connection is free for the next upload; the last FileMessage it read is
\* kept as history, and so are the bundle directory and the Status
Returned(a) ==
    [IdleAdmin EXCEPT !.fileSize = a.fileSize, !.perm = a.perm, !.dir = a.dir,
                      !.base = a.base, !.status = a.status]

\* errorConnection(base, conn, msg, cerr): os.RemoveAll(base) unless base is
\* "", then Status{false, msg}
errorConnection(a) ==
    [a EXCEPT !.base = IF @ # "" THEN "removed" ELSE @, !.status = "false"]

\* descriptors added plus uploads under way
Pending == Len(sites) + Cardinality({u \in Admins : adm[u].pc \in {"upload", "install"}})

\* handleConnection, lines 89-113: read the AppMessage, pick the version from
\* findSite, answer Accept
AdminAccept(u, app) ==
    /\ ~crashed
    /\ adm[u].pc = "idle"
    /\ Pending < MaxSites
    /\ LET lastSite == findSite(app.name)
           version == IF lastSite # 0 THEN sites[lastSite].version + 1 ELSE 1
       IN adm' = [adm EXCEPT ![u] = [IdleAdmin EXCEPT !.pc = "upload", !.app = app,
                                                       !.version = version,
                                                       !.base = "created"]]
    /\ UNCHANGED <<registry, port, runs, launchlock, req, crashed, probe, lock, tlsStore>>

\* handleConnection, lines 110-176 failing on the connection or the disk
\* (the Accept not written, a FileMessage not read, a directory or a file
\* not made, the pem or the key not read): errorConnection(base, ...)
AdminAbort(u) ==
    /\ ~crashed
    /\ adm[u].pc = "upload"
    /\ adm' = [adm EXCEPT ![u] = Returned(errorConnection(@))]
    /\ UNCHANGED <<registry, port, runs, launchlock, req, crashed, probe, lock, tlsStore>>

\* sizes a FileMessage may announce
FileSizes == {-1, 0, 1, FileSizeLimit - 1, FileSizeLimit, FileSizeLimit + 1}

\* values of FileMessage.Perm: the two special ones, plain modes, the unix
\* bits for sticky, setgid and setuid (01000, 02000, 04000, 04755), the
\* os.FileMode bits for them, and values with every bit set
PermInputs ==
    {-1, 0, 1, -2, 420, 493, 511, 512, 1024, 2048, 2541,
     ModeSticky, ModeSetgid, ModeSetuid, ModeSetuid + 493, 2097152, 2147483647}

\* bit i of the 32-bit two's complement of n, for i below 31
Bit(n, i) == (n \div 2^i) % 2

\* x & y of two os.FileMode values, y without its top bit
RECURSIVE AndFrom(_, _, _)
AndFrom(x, y, i) ==
    IF i > 30 THEN 0
    ELSE Bit(x, i) * Bit(y, i) * 2^i + AndFrom(x, y, i + 1)

\* os.ModeSetgid | os.ModeSetuid | os.ModeSticky | os.ModePerm: the four
\* have no bit in common
PermMask == ModeSetgid + ModeSetuid + ModeSticky + ModePerm

\* the mask left out: the mode as requested
cleanFilePermUnmasked(perm) ==
    IF perm = -1 THEN 0
    ELSE IF perm = 0 THEN DefaultFilePerm
    ELSE perm

\* cleanFilePerm(perm)
cleanFilePerm(perm) ==
    IF perm = -1 THEN 0
    ELSE IF perm = 0 THEN DefaultFilePerm
    ELSE AndFrom(perm, PermMask, 0)

\* cleanDirPerm(perm)
cleanDirPerm(perm) ==
    IF perm = -1 THEN 0
    ELSE IF perm = 0 THEN DefaultDirPerm
    ELSE AndFrom(perm, PermMask, 0)

\* a FileMessage that names a file or a directory (the end marker is not
\* one): its Size, its Perm, and whether its Name ends in "/"
FileMessages == [size : FileSizes, perm : PermInputs, dir : BOOLEAN]

\* the limit taken with >=: a file of exactly the limit is refused
AdminFileBelowLimit(u, file) ==
    /\ ~crashed
    /\ adm[u].pc = "upload"
    /\ adm' = [adm EXCEPT ![u] =
                  IF file.size >= FileSizeLimit
                  THEN Returned(errorConnection(Received(@, file)))
                  ELSE IF file.dir /\ file.size < 0 THEN Received(@, file)
                  ELSE IF file.dir /\ file.size = 0
                  THEN [Received(@, file) EXCEPT !.mode = cleanDirPerm(file.perm)]
                  ELSE IF file.dir THEN Returned(errorConnection(Received(@, file)))
                  ELSE [Received(@, file) EXCEPT !.mode = cleanFilePerm(file.perm)]]
    /\ crashed' = (file.dir /\ file.size < 0)
    /\ UNCHANGED <<registry, port, runs, launchlock, req, probe, lock, tlsStore>>

\* handleConnection, lines 124-176, one turn of the loop for a FileMessage
\* that is not the end marker: over the limit it ends in errorConnection
\* (Status{false}, the handler returns without addSite); a name ending in
\* "/" with no size is made a directory by writeDir, which ends the process
\* with log.Fatal when the size is not 0; anything else is written by
\* writeFile, which fails to open a name ending in "/"
AdminFile(u, file) ==
    /\ ~crashed
    /\ adm[u].pc = "upload"
    /\ adm' = [adm EXCEPT ![u] =
                  IF file.size > FileSizeLimit
                  THEN Returned(errorConnection(Received(@, file)))
                  ELSE IF file.dir /\ file.size < 0 THEN Received(@, file)
                  ELSE IF file.dir /\ file.size = 0
                  THEN [Received(@, file) EXCEPT !.mode = cleanDirPerm(file.perm)]
                  ELSE IF file.dir THEN Returned(errorConnection(Received(@, file)))
                  ELSE [Received(@, file) EXCEPT !.mode = cleanFilePerm(file.perm)]]
    /\ crashed' = (file.dir /\ file.size < 0)
    /\ UNCHANGED <<registry, port, runs, launchlock, req, probe, lock, tlsStore>>

\* handleConnection, lines 178-223: Status{true}, then addSite
AdminInstall(u) ==
    /\ ~crashed
    /\ adm[u].pc = "upload"
    /\ addSite([id |-> adm[u].app.name,
                version |-> adm[u].version,
                hostnames |-> adm[u].app.hosts,
                paths |-> <<Slash>>,
                command |-> adm[u].app.command,
                httpsOnly |-> adm[u].app.httpsOnly])
    /\ adm' = [adm EXCEPT ![u] = Returned([@ EXCEPT !.status = "true"])]
    /\ UNCHANGED <<port, runs, launchlock, req, probe, lock, tlsStore>>

\* handleConnection, line 178: Status{true} written once the end of the file
\* list is read; the certificate, letsencrypt and addSite are still to come
AdminStatus(u) ==
    /\ ~crashed
    /\ adm[u].pc = "upload"
    /\ adm' = [adm EXCEPT ![u].pc = "install", ![u].status = "true"]
    /\ UNCHANGED <<registry, port, runs, launchlock, req, crashed, probe, lock, tlsStore>>

\* handleConnection, lines 212-223: addSite, and the handler returns
AdminAddSite(u) ==
    /\ ~crashed
    /\ adm[u].pc = "install"
    /\ addSite([id |-> adm[u].app.name,
                version |-> adm[u].version,
                hostnames |-> adm[u].app.hosts,
                paths |-> <<Slash>>,
                command |-> adm[u].app.command,
                httpsOnly |-> adm[u].app.httpsOnly])
    /\ adm' = [adm EXCEPT ![u] = Returned(@)]
    /\ UNCHANGED <<port, runs, launchlock, req, probe, lock, tlsStore>>

\* ----------------------------------------------------------------- Init
\* redirect: of a 302, the Host header and path it answers and its Location
\* the header names under observation, and a header without values
HeaderNames == {"Strict-Transport-Security", "Content-Type"}

NoHeader == [k \in HeaderNames |-> <<>>]

\* tls: r.TLS != nil; header: w.Header(); sent: the header that WriteHeader
\* sent to the client
IdleReq == [pc |-> "idle", site |-> 0, running |-> 0, after |-> "", status |-> 0,
            redirect |-> <<>>, tls |-> FALSE, header |-> NoHeader, sent |-> NoHeader]

\* no call of package shared under observation
NoCall == [fn |-> "", s |-> <<>>, p |-> <<>>, result |-> ""]

\* no thread
Nobody == <<>>

\* the server as main starts it
ServerInit ==
    /\ lock = [writer |-> Nobody, readers |-> {}]
    /\ certificates = <<>>
    /\ certHashes = <<>>
    /\ sites = <<>>
    /\ latestSites = <<>>
    /\ routes = [h \in Hosts |-> <<>>]
    /\ running = <<>>
    /\ port = FirstPort
    /\ runs = <<>>
    /\ launchlock = 0
    /\ req = [p \in Procs |-> IdleReq]
    /\ adm = [u \in Admins |-> IdleAdmin]
    /\ crashed = FALSE

Init ==
    /\ ServerInit
    /\ probe = NoCall

\* ------------------------------------------------------- the supervisor
RunIds == 1..Len(runs)

\* time.Since(run.start).Seconds(): start is kept as the seconds passed
\* since it was set, counted up to WarmupSeconds, the largest span the
\* program compares it with
Since(r) == runs[r].since

\* the requests that wait to launch for the descriptor s: matchSite gave
\* them no RunningSite, or they cleared an errored one
Waiting(s) ==
    {q \in Procs : /\ req[q].site = s
                   /\ req[q].pc \in {"check", "lock"}
                   /\ req[q].running = 0}

\* runs once request p has returned: it leaves the cohorts (history only)
Left(rs, p) ==
    [r \in 1..Len(rs) |-> [rs[r] EXCEPT !.cohort = @ \ {p}]]

\* launch(site): the next port, a RunningSite, and the child if it starts.
\* outcome "ok": started; "nostart": LookPath, a pipe or Start failed;
\* "pidfile": started, the pidfile write failed and the child was killed.
\* a launch that fails without serve setting running.error
NewRunUnmarked(p, s, outcome) ==
    [site |-> s, cohort |-> Waiting(s) \cup {p}, addr |-> port + 1, since |-> 0, error |-> FALSE,
     working |-> 0,
     proc |-> CASE outcome = "ok" -> "live"
                [] outcome = "nostart" -> "none"
                [] OTHER -> "killed",
     drain |-> "none", tries |-> 0, unbound |-> FALSE]

\* History, not program state: site (the descriptor launched for), cohort
\* (the launching request and those waiting to launch for the same
\* descriptor at that moment), unbound (site.running was cleared of it)
NewRun(p, s, outcome) ==
    [site |-> s, cohort |-> Waiting(s) \cup {p}, addr |-> port + 1, since |-> 0, error |-> outcome # "ok",
     working |-> 0,
     proc |-> CASE outcome = "ok" -> "live"
                [] outcome = "nostart" -> "none"
                [] OTHER -> "killed",
     drain |-> "none", tries |-> 0, unbound |-> FALSE]

LaunchOutcomes == {"ok", "nostart", "pidfile"}

\* --------------------------------------------------------------- serve
ReqDone(p, status) ==
    req' = [req EXCEPT ![p] = [IdleReq EXCEPT !.pc = "done", !.status = status]]

\* net.SplitHostPort(r.Host), the host it returns: the part before the port,
\* or "" (with an error that serve drops) when the header has no port
SplitHostPort(hostHeader) ==
    IF Len(hostHeader) = 2 THEN hostHeader[1] ELSE ""

\* serve, lines 302-307: u.String() of r.URL with Host and Scheme replaced,
\* as scheme, host and path
RedirectLocation(hostHeader, path) ==
    <<"https", SplitHostPort(hostHeader), path>>

\* serve, lines 296-310: the answer to plain http on an httpsOnly site
Redirect(p, hostHeader, path) ==
    IF hostHeader = <<"">> THEN ReqDone(p, 404)
    ELSE req' = [req EXCEPT ![p] =
                    [IdleReq EXCEPT !.pc = "done", !.status = 302,
                                    !.redirect = [host |-> hostHeader, path |-> path,
                                                  location |-> RedirectLocation(hostHeader, path)]]]

\* the test of site.command left out: every site is launched
StartNoStatic(p, hostHeader, path, tls) ==
    /\ ~crashed
    /\ req[p].pc \in {"idle", "done"}
    /\ LET host == hostHeader[1]
           m == matchSite(host, path)
       IN IF m[1] = 0 THEN ReqDone(p, 404)
          ELSE IF sites[m[1]].httpsOnly /\ ~tls THEN Redirect(p, hostHeader, path)
          ELSE req' = [req EXCEPT ![p] = [IdleReq EXCEPT !.pc = "check", !.site = m[1],
                                              !.running = m[2], !.tls = tls]]
    /\ UNCHANGED <<registry, port, runs, launchlock, adm, crashed, probe, lock, tlsStore>>

\* serve, lines 285-315, on a goroutine that is free (it served nothing yet
\* or its last request is done): matchSite, then 404, the https redirect,
\* the static site, or on to the supervisor with the running snapshot
\* matchSite took
Start(p, hostHeader, path, tls) ==
    /\ ~crashed
    /\ req[p].pc \in {"idle", "done"}
    /\ LET host == hostHeader[1]
           m == matchSite(host, path)
       IN IF m[1] = 0 THEN ReqDone(p, 404)
          ELSE IF sites[m[1]].httpsOnly /\ ~tls THEN Redirect(p, hostHeader, path)
          ELSE IF sites[m[1]].command = "" THEN ReqDone(p, 200)
          ELSE req' = [req EXCEPT ![p] = [IdleReq EXCEPT !.pc = "check", !.site = m[1],
                                              !.running = m[2], !.tls = tls]]
    /\ UNCHANGED <<registry, port, runs, launchlock, adm, crashed, probe, lock, tlsStore>>

\* the test of running.error left out: any RunningSite of 5 s or more is
\* cleared
ErrCheckAnyRunning(p) ==
    /\ ~crashed
    /\ req[p].pc = "check"
    /\ LET r == req[p].running
           s == req[p].site
       IN IF r # 0 /\ Since(r) >= ErrorRetrySeconds
          THEN /\ running' = [running EXCEPT ![s] = 0]
               /\ runs' = IF running[s] # 0
                          THEN [runs EXCEPT ![running[s]].unbound = TRUE]
                          ELSE runs
               /\ req' = [req EXCEPT ![p].running = 0, ![p].pc = "lock"]
          ELSE /\ req' = [req EXCEPT ![p].pc = IF r = 0 THEN "lock" ELSE "gate"]
               /\ UNCHANGED <<running, runs>>
    /\ UNCHANGED <<sites, latestSites, routes, port, launchlock, adm, crashed, probe, lock, tlsStore>>

\* the test of the age left out: an errored RunningSite is cleared at once
ErrCheckAnyAge(p) ==
    /\ ~crashed
    /\ req[p].pc = "check"
    /\ LET r == req[p].running
           s == req[p].site
       IN IF r # 0 /\ runs[r].error
          THEN /\ running' = [running EXCEPT ![s] = 0]
               /\ runs' = IF running[s] # 0
                          THEN [runs EXCEPT ![running[s]].unbound = TRUE]
                          ELSE runs
               /\ req' = [req EXCEPT ![p].running = 0, ![p].pc = "lock"]
          ELSE /\ req' = [req EXCEPT ![p].pc = IF r = 0 THEN "lock" ELSE "gate"]
               /\ UNCHANGED <<running, runs>>
    /\ UNCHANGED <<sites, latestSites, routes, port, launchlock, adm, crashed, probe, lock, tlsStore>>

\* serve, lines 317-329: an errored RunningSite of 5 s or more is cleared,
\* site.running = nil whatever it holds by now; then launch or go on
ErrCheck(p) ==
    /\ ~crashed
    /\ req[p].pc = "check"
    /\ LET r == req[p].running
           s == req[p].site
       IN IF r # 0 /\ runs[r].error /\ Since(r) >= ErrorRetrySeconds
          THEN /\ running' = [running EXCEPT ![s] = 0]
               /\ runs' = IF running[s] # 0
                          THEN [runs EXCEPT ![running[s]].unbound = TRUE]
                          ELSE runs
               /\ req' = [req EXCEPT ![p].running = 0, ![p].pc = "lock"]
          ELSE /\ req' = [req EXCEPT ![p].pc = IF r = 0 THEN "lock" ELSE "gate"]
               /\ UNCHANGED <<running, runs>>
    /\ UNCHANGED <<sites, latestSites, routes, port, launchlock, adm, crashed, probe, lock, tlsStore>>

\* the re-check left out: launch whatever site.running holds
RecheckSkipped(p) ==
    req' = [req EXCEPT ![p].pc = "launch"]

\* serve, line 334: the re-check of site.running under launchlock
Recheck(p) ==
    req' = [req EXCEPT ![p].pc = IF running[req[p].site] # 0 THEN "reread" ELSE "launch"]

\* launchlock not taken: the re-check alone
LockLaunchNoWait(p) ==
    /\ ~crashed
    /\ req[p].pc = "lock"
    /\ Recheck(p)
    /\ UNCHANGED <<registry, port, runs, launchlock, adm, crashed, probe, lock, tlsStore>>

\* serve, lines 332-334: launchlock.Lock() and the re-check
LockLaunch(p) ==
    /\ ~crashed
    /\ req[p].pc = "lock"
    /\ launchlock = 0
    /\ launchlock' = p
    /\ Recheck(p)
    /\ UNCHANGED <<registry, port, runs, adm, crashed, probe, lock, tlsStore>>

\* serve, lines 335-336: running = site.running, read again without lock
\* (a stop in between leaves nil), and launchlock.Unlock()
Reread(p) ==
    /\ ~crashed
    /\ req[p].pc = "reread"
    /\ req' = [req EXCEPT ![p].running = running[req[p].site], ![p].pc = "gate"]
    /\ launchlock' = 0
    /\ UNCHANGED <<registry, port, runs, adm, crashed, probe, lock, tlsStore>>

\* launch without port++: every RunningSite gets the port after the first
LaunchSamePort(p, outcome) ==
    /\ ~crashed
    /\ req[p].pc = "launch"
    /\ Len(runs) < MaxRuns
    /\ runs' = Append(runs, NewRun(p, req[p].site, outcome))
    /\ running' = [running EXCEPT ![req[p].site] = Len(runs) + 1]
    /\ launchlock' = 0
    /\ req' = [req EXCEPT ![p].running = Len(runs) + 1, ![p].pc = "gate"]
    /\ UNCHANGED <<sites, latestSites, routes, port, adm, crashed, probe, lock, tlsStore>>

\* serve, lines 339-350: launch(*site), running.error on failure, then
\* site.running = running under lock, and both locks released
Launch(p, outcome) ==
    /\ ~crashed
    /\ req[p].pc = "launch"
    /\ Len(runs) < MaxRuns
    /\ port' = port + 1
    /\ runs' = Append(runs, NewRun(p, req[p].site, outcome))
    /\ running' = [running EXCEPT ![req[p].site] = Len(runs) + 1]
    /\ launchlock' = 0
    /\ req' = [req EXCEPT ![p].running = Len(runs) + 1, ![p].pc = "gate"]
    /\ UNCHANGED <<sites, latestSites, routes, adm, crashed, probe, lock, tlsStore>>

\* serve, lines 353-359: running.error (a nil running panics, which net/http
\* recovers: status 0), 500 "app in error", or working++ with the deferred
\* decrement
Gate(p) ==
    /\ ~crashed
    /\ req[p].pc = "gate"
    /\ LET r == req[p].running
       IN IF r = 0 THEN ReqDone(p, 0) /\ runs' = Left(runs, p)
          ELSE IF runs[r].error THEN ReqDone(p, 500) /\ runs' = Left(runs, p)
          ELSE /\ runs' = [runs EXCEPT ![r].working = @ + 1]
               /\ req' = [req EXCEPT ![p].pc = "dial"]
    /\ UNCHANGED <<registry, port, launchlock, adm, crashed, probe, lock, tlsStore>>

\* the call stop(site, running, err) that follows, then pc `after`
CallStop(p, status, after) ==
    req' = [req EXCEPT ![p].pc = "stop", ![p].status = status, ![p].after = after]

\* the warm-up left out: the first failed dial is a 500 and a stop
DialNoWarmup(p, ok) ==
    /\ ~crashed
    /\ req[p].pc = "dial"
    /\ IF ok THEN req' = [req EXCEPT ![p].pc = "write"]
       ELSE CallStop(p, 500, "ret")
    /\ UNCHANGED <<registry, port, runs, launchlock, adm, crashed, probe, lock, tlsStore>>

\* serve, lines 366-388: dial, retried every 100 ms while start is less than
\* 20 s ago; a failure after that is a 500 and a stop
Dial(p, ok) ==
    /\ ~crashed
    /\ req[p].pc = "dial"
    /\ IF ok THEN req' = [req EXCEPT ![p].pc = "write"]
       ELSE /\ Since(req[p].running) >= WarmupSeconds
            /\ CallStop(p, 500, "ret")
    /\ UNCHANGED <<registry, port, runs, launchlock, adm, crashed, probe, lock, tlsStore>>

\* a failed write answered by another dial instead of the 500 and stop
WriteRetried(p, ok) ==
    /\ ~crashed
    /\ req[p].pc = "write"
    /\ req' = [req EXCEPT ![p].pc = IF ok THEN "read" ELSE "dial"]
    /\ UNCHANGED <<registry, port, runs, launchlock, adm, crashed, probe, lock, tlsStore>>

\* http.Header.Add
HeaderAdd(header, k, v) == [header EXCEPT ![k] = Append(@, v)]

HSTS == "max-age=63072000; includeSubDomains"

\* serve, lines 399-402: the header added to w.Header() if r.TLS != nil
Secure(header, tls) ==
    IF tls THEN HeaderAdd(header, "Strict-Transport-Security", HSTS) ELSE header

\* serve, lines 399-410: the header for TLS, then r.Write(conn); write500
\* sends w.Header() as it is
Write(p, ok) ==
    /\ ~crashed
    /\ req[p].pc = "write"
    /\ LET header == Secure(req[p].header, req[p].tls)
       IN IF ok THEN req' = [req EXCEPT ![p].pc = "read", ![p].header = header]
          ELSE req' = [req EXCEPT ![p].pc = "stop", ![p].status = 500, ![p].after = "ret",
                                  ![p].header = header, ![p].sent = header]
    /\ UNCHANGED <<registry, port, runs, launchlock, adm, crashed, probe, lock, tlsStore>>

Responses == {"error", "200", "500"}

\* serve, lines 427-433: every key of w.Header() set to nil, then the keys
\* of res.Header copied over it
Relay(header, resHeader) ==
    LET cleared == [k \in DOMAIN header |-> <<>>]
    IN [k \in DOMAIN header |-> IF resHeader[k] # <<>> THEN resHeader[k] ELSE cleared[k]]

\* serve, lines 413-434: http.ReadResponse; a status of 500 or more stops
\* the site and is passed on; the header of the response replaces
\* w.Header() and WriteHeader sends it
ReadResponse(p, res, resHeader) ==
    /\ ~crashed
    /\ req[p].pc = "read"
    /\ LET header == Relay(req[p].header, resHeader)
       IN CASE res = "error" ->
                   req' = [req EXCEPT ![p].pc = "stop", ![p].status = 500, ![p].after = "ret",
                                      ![p].sent = req[p].header]
            [] res = "500" ->
                   req' = [req EXCEPT ![p].pc = "stop", ![p].status = 500, ![p].after = "copy",
                                      ![p].header = header, ![p].sent = header]
            [] OTHER ->
                   req' = [req EXCEPT ![p].pc = "copy", ![p].status = 200,
                                      ![p].header = header, ![p].sent = header]
    /\ UNCHANGED <<registry, port, runs, launchlock, adm, crashed, probe, lock, tlsStore>>

\* a response of the backend without the headers under observation
Read(p, res) == ReadResponse(p, res, NoHeader)

\* serve, lines 436-445: shared.Copy; a backend read error stops the site
Copy(p, ok) ==
    /\ ~crashed
    /\ req[p].pc = "copy"
    /\ IF ok THEN req' = [req EXCEPT ![p].pc = "ret"]
       ELSE CallStop(p, req[p].status, "ret")
    /\ UNCHANGED <<registry, port, runs, launchlock, adm, crashed, probe, lock, tlsStore>>

\* site.running left bound by stop: the drain task alone
StopKeepsBound(p) ==
    /\ ~crashed
    /\ req[p].pc = "stop"
    /\ LET r == req[p].running
           s == req[p].site
       IN IF running[s] = r
          THEN /\ runs' = [runs EXCEPT ![r].drain = "poll"]
               /\ UNCHANGED running
          ELSE UNCHANGED <<running, runs>>
    /\ req' = [req EXCEPT ![p].pc = req[p].after, ![p].after = ""]
    /\ UNCHANGED <<sites, latestSites, routes, port, launchlock, adm, crashed, probe, lock, tlsStore>>

\* stop, lines 206-227: under lock, clear site.running if it is still this
\* RunningSite and, for the caller that cleared it, start the drain task
Stop(p) ==
    /\ ~crashed
    /\ req[p].pc = "stop"
    /\ LET r == req[p].running
           s == req[p].site
       IN IF running[s] = r
          THEN /\ running' = [running EXCEPT ![s] = 0]
               /\ runs' = [runs EXCEPT ![r].drain = "poll", ![r].unbound = TRUE]
          ELSE UNCHANGED <<running, runs>>
    /\ req' = [req EXCEPT ![p].pc = req[p].after, ![p].after = ""]
    /\ UNCHANGED <<sites, latestSites, routes, port, launchlock, adm, crashed, probe, lock, tlsStore>>

\* the decrement left out
DeferredMissing(p) ==
    runs' = Left(runs, p)

\* serve, line 359: the deferred atomic.AddInt64(&running.working, -1)
Deferred(p) ==
    runs' = Left([runs EXCEPT ![req[p].running].working = @ - 1], p)

\* serve returns from the proxy path
Return(p) ==
    /\ ~crashed
    /\ req[p].pc = "ret"
    /\ Deferred(p)
    /\ ReqDone(p, req[p].status)
    /\ UNCHANGED <<registry, port, launchlock, adm, crashed, probe, lock, tlsStore>>

\* stop, lines 228-246: one turn of the drain loop, counting tries up to cap:
\* working > 0 continues, working < 0 is fatal, working == 0 breaks; the
\* test of tries and the sleep come after these and are never reached
DrainPoll(r, cap) ==
    /\ ~crashed
    /\ runs[r].drain = "poll"
    /\ LET tries == IF runs[r].tries < cap THEN runs[r].tries + 1 ELSE cap
           stillrunning == runs[r].working
       IN IF stillrunning > 0
          THEN runs' = [runs EXCEPT ![r].tries = tries] /\ UNCHANGED crashed
          ELSE IF stillrunning < 0
          THEN crashed' = TRUE /\ UNCHANGED runs
          ELSE runs' = [runs EXCEPT ![r].tries = tries, ![r].drain = "kill"]
               /\ UNCHANGED crashed
    /\ UNCHANGED <<registry, port, launchlock, req, adm, probe, lock, tlsStore>>

\* stop, lines 248-253: running.cmd.Process.Kill() and Process.Wait(), and
\* the task ends (with it its local tries)
DrainKill(r) ==
    /\ ~crashed
    /\ runs[r].drain = "kill"
    /\ runs' = [runs EXCEPT ![r].proc = "reaped", ![r].drain = "done", ![r].tries = 0]
    /\ UNCHANGED <<registry, port, launchlock, req, adm, crashed, probe, lock, tlsStore>>

\* time passes
Tick ==
    /\ ~crashed
    /\ \E r \in RunIds : runs[r].since < WarmupSeconds
    /\ runs' = [r \in RunIds |->
                   [runs[r] EXCEPT !.since = IF @ + TickSeconds < WarmupSeconds
                                              THEN @ + TickSeconds ELSE WarmupSeconds]]
    /\ UNCHANGED <<registry, port, launchlock, req, adm, crashed, probe, lock, tlsStore>>

\* ------------------------------------------------------- specifications
\* the steps of serve that a request takes also when it is alone
SoloSteps(p) ==
    \/ ErrCheck(p)
    \/ LockLaunch(p)
    \/ \E outcome \in LaunchOutcomes : Launch(p, outcome)
    \/ Gate(p)
    \/ \E ok \in BOOLEAN : Dial(p, ok)
    \/ \E ok \in BOOLEAN : Write(p, ok)
    \/ \E res \in Responses : Read(p, res)
    \/ \E ok \in BOOLEAN : Copy(p, ok)
    \/ Stop(p)
    \/ Return(p)

ServeNext(p) ==
    \/ \E rq \in ServeRequests : Start(p, rq.host, rq.path, rq.tls)
    \/ SoloSteps(p)
    \/ Reread(p)

Next ==
    \/ \E app \in ServeApps : Len(sites) < MaxServed /\ AdminAccept(1, app)
    \/ AdminAbort(1)
    \/ AdminInstall(1)
    \/ \E p \in Procs : ServeNext(p)
    \/ \E r \in RunIds : DrainPoll(r, MaxTries)
    \/ \E r \in RunIds : DrainKill(r)
    \/ Tick

Spec == Init /\ [][Next]_vars

\* no drain task is under way
NoDrain == \A r \in RunIds : runs[r].drain \in {"none", "done"}

\* one request at a time, uploads and new requests arriving while no drain
\* task is under way, and the task's tries counted up to the point where
\* the code compares them with ForceTries
DrainNext ==
    \/ \E app \in ServeApps : NoDrain /\ Len(sites) < MaxServed /\ AdminAccept(1, app)
    \/ NoDrain /\ AdminAbort(1)
    \/ NoDrain /\ AdminInstall(1)
    \/ \E rq \in ServeRequests : NoDrain /\ Start(1, rq.host, rq.path, rq.tls)
    \/ SoloSteps(1)
    \/ \E r \in RunIds : DrainPoll(r, ForceTries + 1)
    \/ \E r \in RunIds : DrainKill(r)
    \/ Tick

DrainSpec == Init /\ [][DrainNext]_vars

\* the registry under admin uploads alone
RegistryNext ==
    \/ \E u \in Admins, app \in AppMessages : AdminAccept(u, app)
    \/ \E u \in Admins : AdminAbort(u)
    \/ \E u \in Admins : AdminInstall(u)

RegistrySpec == Init /\ [][RegistryNext]_vars

\* one request at a time, of any kind, to sites of any kind (static or
\* launched, httpsOnly or not) of one name on the host h1
FrontApps == {m \in AppMessages : m.name = "a" /\ m.hosts = <<"h1">>}

FrontNext ==
    \/ \E app \in FrontApps : Len(sites) < MaxServed /\ AdminAccept(1, app)
    \/ AdminAbort(1)
    \/ AdminInstall(1)
    \/ \E rq \in Requests : Start(1, rq.host, rq.path, rq.tls)
    \/ SoloSteps(1)
    \/ \E r \in RunIds : DrainPoll(r, MaxTries)
    \/ \E r \in RunIds : DrainKill(r)
    \/ Tick

FrontSpec == Init /\ [][FrontNext]_vars

\* one request at a time, over TLS or not, to a launched site whose backend
\* answers with or without headers of its own
ProxyRequests == {rq \in Requests : rq.host = <<"h1", "8000">> /\ rq.path = <<"/", "a">>}

BackendHeaders ==
    {NoHeader,
     [NoHeader EXCEPT !["Content-Type"] = <<"text/html">>],
     [NoHeader EXCEPT !["Strict-Transport-Security"] = <<"max-age=0">>]}

ProxyNext ==
    \/ \E app \in ServeApps : Len(sites) < MaxServed /\ AdminAccept(1, app)
    \/ AdminAbort(1)
    \/ AdminInstall(1)
    \/ \E rq \in ProxyRequests : Start(1, rq.host, rq.path, rq.tls)
    \/ ErrCheck(1)
    \/ LockLaunch(1)
    \/ \E outcome \in LaunchOutcomes : Launch(1, outcome)
    \/ Gate(1)
    \/ \E ok \in BOOLEAN : Dial(1, ok)
    \/ \E ok \in BOOLEAN : Write(1, ok)
    \/ \E res \in Responses, resHeader \in BackendHeaders : ReadResponse(1, res, resHeader)
    \/ \E ok \in BOOLEAN : Copy(1, ok)
    \/ Stop(1)
    \/ Return(1)
    \/ \E r \in RunIds : DrainPoll(r, MaxTries)
    \/ \E r \in RunIds : DrainKill(r)
    \/ Tick

ProxySpec == Init /\ [][ProxyNext]_vars

\* the admin uploads with the files they carry, of every size
UploadFiles == {f \in FileMessages : f.perm = 0 /\ ~f.dir}

UploadNext ==
    \/ \E u \in Admins, app \in FrontApps : AdminAccept(u, app)
    \/ \E u \in Admins, file \in UploadFiles : AdminFile(u, file)
    \/ \E u \in Admins : AdminAbort(u)
    \/ \E u \in Admins : AdminInstall(u)

UploadSpec == Init /\ [][UploadNext]_vars

\* one upload at a time with the Status and addSite as steps of their own,
\* and one request at a time for the hostname of the uploads
InstallRequests == {rq \in ServeRequests : rq.host[1] = "h1"}

InstallNext ==
    \/ \E app \in ServeApps : Len(sites) < MaxServed /\ AdminAccept(1, app)
    \/ AdminAbort(1)
    \/ AdminStatus(1)
    \/ AdminAddSite(1)
    \/ \E rq \in InstallRequests : Start(1, rq.host, rq.path, rq.tls)
    \/ SoloSteps(1)
    \/ \E r \in RunIds : DrainPoll(r, MaxTries)
    \/ \E r \in RunIds : DrainKill(r)
    \/ Tick

InstallSpec == Init /\ [][InstallNext]_vars

\* one admin upload at a time with files and directories of every size
AbortFiles == {f \in FileMessages : f.perm = 0}

AbortNext ==
    \/ \E app \in FrontApps : AdminAccept(1, app)
    \/ \E file \in AbortFiles : AdminFile(1, file)
    \/ AdminAbort(1)
    \/ AdminInstall(1)

AbortSpec == Init /\ [][AbortNext]_vars

\* admin connections alone, overlapping, with uploads of one name and files
\* and directories of every size
AdminNext ==
    \/ \E u \in Admins, app \in FrontApps : AdminAccept(u, app)
    \/ \E u \in Admins, file \in AbortFiles : AdminFile(u, file)
    \/ \E u \in Admins : AdminAbort(u)
    \/ \E u \in Admins : AdminInstall(u)

AdminSpec == Init /\ [][AdminNext]_vars

\* one admin upload with files and directories of every requested mode
PermFiles == {f \in FileMessages : f.size = 0}

PermNext ==
    \/ \E app \in ServeApps : AdminAccept(1, app)
    \/ \E file \in PermFiles : AdminFile(1, file)
    \/ AdminAbort(1)
    \/ AdminInstall(1)

PermSpec == Init /\ [][PermNext]_vars

\* the string functions of package shared, called with every pair of
\* strings of up to MaxLen characters
Chars == {"/", "a"}

Strings == UNION {[1..n -> Chars] : n \in 0..MaxLen}

SharedFunctions == {"StartsWith", "EndsWith"}

StringInit ==
    /\ ServerInit
    /\ probe \in [fn : SharedFunctions, s : Strings, p : Strings, result : {""}]

Bool(b) == IF b THEN "true" ELSE "false"

CallStartsWith ==
    /\ probe.fn = "StartsWith" /\ probe.result = ""
    /\ probe' = [probe EXCEPT !.result = Bool(StartsWith(probe.s, probe.p))]
    /\ UNCHANGED <<registry, port, runs, launchlock, req, adm, crashed, lock, tlsStore>>

CallEndsWith ==
    /\ probe.fn = "EndsWith" /\ probe.result = ""
    /\ probe' = [probe EXCEPT !.result = Bool(EndsWith(probe.s, probe.p))]
    /\ UNCHANGED <<registry, port, runs, launchlock, req, adm, crashed, lock, tlsStore>>

StringNext == CallStartsWith \/ CallEndsWith

StringSpec == StringInit /\ [][StringNext]_vars

\* ------------------------------------------------------- the admin wire
\* Bytes are written as one-character strings, the byte 0 as NUL; the keys
\* of a JSON object, which are the same in every message, as one string each.
NUL == "NUL"

Digits == <<"0", "1", "2", "3", "4", "5", "6", "7", "8", "9">>

\* strconv of a non-negative int, as encoding/json writes it
RECURSIVE Decimal(_)
Decimal(n) ==
    IF n < 10 THEN <<Digits[n + 1]>>
    ELSE Append(Decimal(n \div 10), Digits[(n % 10) + 1])

\* encoding/json on one character of a string: the quote and the control
\* character U+0000 are escaped
Escape(c) ==
    CASE c = "\"" -> <<"\\", "\"">>
      [] c = NUL -> <<"\\", "u", "0", "0", "0", "0">>
      [] OTHER -> <<c>>

RECURSIVE Quoted(_)
Quoted(s) == IF s = <<>> THEN <<>> ELSE Escape(Head(s)) \o Quoted(Tail(s))

\* json.Marshal of a FileMessage
Marshal(v) ==
    <<"{", "\"name\":", "\"">> \o Quoted(v.name) \o <<"\"", ",", "\"size\":">>
        \o Decimal(v.size) \o <<",", "\"perm\":">> \o Decimal(v.perm) \o <<"}">>

\* WriteJSON0(out, v): the bytes it writes
WriteJSON0(v) == Append(Marshal(v), NUL)

NoParse == [ok |-> FALSE, value |-> <<>>, next |-> 0]

\* the characters of a JSON string from position i, after its opening quote
RECURSIVE ScanString(_, _, _)
ScanString(b, i, acc) ==
    IF i > Len(b) \/ b[i] = NUL THEN NoParse
    ELSE IF b[i] = "\"" THEN [ok |-> TRUE, value |-> acc, next |-> i + 1]
    ELSE IF b[i] = "\\"
    THEN IF i + 1 <= Len(b) /\ b[i + 1] = "\""
         THEN ScanString(b, i + 2, Append(acc, "\""))
         ELSE IF i + 5 <= Len(b) /\ SubSeq(b, i + 1, i + 5) = <<"u", "0", "0", "0", "0">>
         THEN ScanString(b, i + 6, Append(acc, NUL))
         ELSE NoParse
    ELSE ScanString(b, i + 1, Append(acc, b[i]))

IsDigit(c) == \E d \in 1..10 : Digits[d] = c

DigitValue(c) == (CHOOSE d \in 1..10 : Digits[d] = c) - 1

\* the digits of a JSON number from position i
RECURSIVE ScanInt(_, _, _, _)
ScanInt(b, i, acc, any) ==
    IF i <= Len(b) /\ IsDigit(b[i]) THEN ScanInt(b, i + 1, 10 * acc + DigitValue(b[i]), TRUE)
    ELSE IF any THEN [ok |-> TRUE, value |-> acc, next |-> i]
    ELSE NoParse

Expect(b, i, tokens) ==
    /\ i + Len(tokens) - 1 <= Len(b)
    /\ SubSeq(b, i, i + Len(tokens) - 1) = tokens

\* json.Unmarshal(bytes, &file) for a FileMessage
Unmarshal(b) ==
    LET name == IF Expect(b, 1, <<"{", "\"name\":", "\"">>)
                THEN ScanString(b, 4, <<>>) ELSE NoParse
        size == IF name.ok /\ Expect(b, name.next, <<",", "\"size\":">>)
                THEN ScanInt(b, name.next + 2, 0, FALSE) ELSE NoParse
        perm == IF size.ok /\ Expect(b, size.next, <<",", "\"perm\":">>)
                THEN ScanInt(b, size.next + 2, 0, FALSE) ELSE NoParse
    IN IF perm.ok /\ Expect(b, perm.next, <<"}">>) /\ perm.next = Len(b)
       THEN [ok |-> TRUE, value |-> [name |-> name.value, size |-> size.value,
                                     perm |-> perm.value]]
       ELSE [ok |-> FALSE, value |-> <<>>]

\* the positions of the delimiter in the bytes the reader has yet to give
Delims(in, delim) == {i \in 1..Len(in) : in[i] = delim}

Min(S) == CHOOSE x \in S : \A y \in S : x <= y

\* the delimiter left in the reader
ReadBytesBefore(in, delim) ==
    IF Delims(in, delim) = {} THEN [ok |-> FALSE, bytes |-> in, rest |-> <<>>]
    ELSE LET k == Min(Delims(in, delim))
         IN [ok |-> TRUE, bytes |-> SubSeq(in, 1, k), rest |-> SubSeq(in, k, Len(in))]

\* bufio.Reader.ReadBytes(delim): the bytes up to and including the first
\* delimiter, or an error at the end of the stream
ReadBytes(in, delim) ==
    IF Delims(in, delim) = {} THEN [ok |-> FALSE, bytes |-> in, rest |-> <<>>]
    ELSE LET k == Min(Delims(in, delim))
         IN [ok |-> TRUE, bytes |-> SubSeq(in, 1, k), rest |-> SubSeq(in, k + 1, Len(in))]

\* ReadJSON0(in, &file): the value and what is left in the reader
ReadJSON0(in) ==
    LET read == ReadBytes(in, NUL)
        parsed == Unmarshal(SubSeq(read.bytes, 1, Len(read.bytes) - 1))
    IN IF read.ok /\ parsed.ok
       THEN [ok |-> TRUE, value |-> parsed.value, rest |-> read.rest]
       ELSE [ok |-> FALSE, value |-> <<>>, rest |-> read.rest]

\* ioutil.ReadAll or io.Copy from io.LimitReader(in, size)
LimitRead(in, size) ==
    LET n == IF size < Len(in) THEN size ELSE Len(in)
    IN [bytes |-> SubSeq(in, 1, n), rest |-> SubSeq(in, n + 1, Len(in))]

\* the uploads on the wire: up to MaxFiles files with names that need
\* escaping or not and contents of up to MaxContent bytes, NUL among them
WireNames == {<<"a">>, <<"\"">>, <<NUL, "a">>}

WireContents == UNION {[1..n -> {NUL, "a"}] : n \in 0..MaxContent}

WireFiles ==
    {[name |-> name, size |-> Len(content), perm |-> 0, content |-> content] :
        name \in WireNames, content \in WireContents}

WireUploads == UNION {[1..n -> WireFiles] : n \in 0..MaxFiles}

FileMessageOf(f) == [name |-> f.name, size |-> f.size, perm |-> f.perm]

EndMarker == [name |-> <<>>, size |-> 0, perm |-> 0]

\* client: for each file WriteJSON0(conn, file) and the content, then the
\* FileMessage without a name
RECURSIVE Stream(_)
Stream(files) ==
    IF files = <<>> THEN WriteJSON0(EndMarker)
    ELSE WriteJSON0(FileMessageOf(Head(files))) \o Head(files).content \o Stream(Tail(files))

\* files: what the client sent; in: what the reader of handleConnection has
\* yet to give; got: the files the handler has; content: whether the content
\* of the last of them was read
WireInit ==
    /\ ServerInit
    /\ probe \in {[fn |-> "ReadJSON0", files |-> files, in |-> Stream(files), got |-> <<>>,
                   content |-> TRUE, result |-> ""] : files \in WireUploads}

\* handleConnection, lines 125-133: shared.ReadJSON0(in, &file) and the test
\* for the end of the list
HandlerReadJSON0 ==
    /\ probe.fn = "ReadJSON0" /\ probe.result = "" /\ probe.content
    /\ LET read == ReadJSON0(probe.in)
       IN probe' =
              IF ~read.ok THEN [probe EXCEPT !.result = "error", !.in = read.rest]
              ELSE IF read.value.name = <<>> /\ read.value.size <= 0
              THEN [probe EXCEPT !.result = "done", !.in = read.rest]
              ELSE [probe EXCEPT !.in = read.rest, !.content = FALSE,
                                 !.got = Append(@, [name |-> read.value.name,
                                                    size |-> read.value.size,
                                                    perm |-> read.value.perm,
                                                    content |-> <<>>])]
    /\ UNCHANGED <<registry, port, runs, launchlock, req, adm, crashed, lock, tlsStore>>

\* handleConnection, lines 150-174: the content read through
\* io.LimitReader(in, int64(file.Size))
HandlerReadContent ==
    /\ probe.fn = "ReadJSON0" /\ probe.result = "" /\ ~probe.content
    /\ LET n == Len(probe.got)
           read == LimitRead(probe.in, probe.got[n].size)
       IN probe' = [probe EXCEPT !.in = read.rest, !.content = TRUE,
                                 !.got[n].content = read.bytes]
    /\ UNCHANGED <<registry, port, runs, launchlock, req, adm, crashed, lock, tlsStore>>

WireNext == HandlerReadJSON0 \/ HandlerReadContent

WireSpec == WireInit /\ [][WireNext]_vars

\* ------------------------------------------------ the certificate store
\* the ids handleConnection computes: md5 of the pem and the key
CertIds == {<<i>> : i \in 1..MaxCerts}

\* tls.X509KeyPair(pem, key): the certificate of the pair with this id
X509KeyPair(hash) == [pair |-> hash]

\* hasCertificate(hash)
hasCertificate(hash) == \E i \in 1..Len(certHashes) : certHashes[i] = hash

\* a call of hasCertificate with its result
CallHasCertificate(hash) ==
    /\ probe' = [fn |-> "hasCertificate", s |-> hash, p |-> <<>>,
                 result |-> Bool(hasCertificate(hash))]
    /\ UNCHANGED <<registry, port, runs, launchlock, req, adm, crashed, lock, tlsStore>>

\* addCertificate without the search for the id
addCertificateAgain(cert, hash) ==
    /\ certificates' = Append(certificates, cert)
    /\ certHashes' = Append(certHashes, hash)
    /\ probe' = [fn |-> "addCertificate", s |-> hash, p |-> <<>>, result |-> "appended"]
    /\ UNCHANGED <<registry, port, runs, launchlock, req, adm, crashed, lock>>

\* addCertificate(cert, hash), under tlsLock: nothing if the id is there,
\* else both lists appended to
addCertificate(cert, hash) ==
    /\ IF hasCertificate(hash)
       THEN /\ probe' = [fn |-> "addCertificate", s |-> hash, p |-> <<>>, result |-> "return"]
            /\ UNCHANGED tlsStore
       ELSE /\ certificates' = Append(certificates, cert)
            /\ certHashes' = Append(certHashes, hash)
            /\ probe' = [fn |-> "addCertificate", s |-> hash, p |-> <<>>,
                         result |-> "appended"]
    /\ UNCHANGED <<registry, port, runs, launchlock, req, adm, crashed, lock>>

\* s without its element at index at: append(s[:at], s[at+1:]...)
Remove(s, at) == SubSeq(s, 1, at - 1) \o SubSeq(s, at + 1, Len(s))

\* removeCertificate(hash), under tlsLock: the first index with the id is
\* removed from both lists
removeCertificate(hash) ==
    /\ IF hasCertificate(hash)
       THEN LET at == Min({i \in 1..Len(certHashes) : certHashes[i] = hash})
            IN /\ certHashes' = Remove(certHashes, at)
               /\ certificates' = Remove(certificates, at)
       ELSE UNCHANGED tlsStore
    /\ probe' = [fn |-> "removeCertificate", s |-> hash, p |-> <<>>, result |-> ""]
    /\ UNCHANGED <<registry, port, runs, launchlock, req, adm, crashed, lock>>

CertNext ==
    \/ \E hash \in CertIds : CallHasCertificate(hash)
    \/ \E hash \in CertIds : addCertificate(X509KeyPair(hash), hash)
    \/ \E hash \in CertIds : removeCertificate(hash)

CertSpec == Init /\ [][CertNext]_vars

\* ------------------------------------------- the locks, one call per step
\* Every Lock, RLock and Unlock of `lock` and `launchlock` that serve and
\* handleConnection make is a step of its own here; req[p].pc and adm[u].pc
\* name the call the thread makes next.
Threads == ({"serve"} \X Procs) \cup ({"admin"} \X Admins)

At(t) == IF t[1] = "serve" THEN req[t[2]].pc ELSE adm[t[2]].pc

\* the call a thread makes at a position
SyncCall(pc) ==
    CASE pc = "matchSite" -> "RLock"
      [] pc = "matchSite.defer" -> "RUnlock"
      [] pc \in {"serveStatic", "clear", "bind", "stop", "findSite", "addSite"} -> "Lock"
      [] pc \in {"serveStatic.defer", "clear.defer", "bind.defer", "stop.defer",
                 "findSite.defer", "addSite.defer"} -> "Unlock"
      [] pc = "launchlock" -> "launchlock.Lock"
      [] pc = "launchlock.defer" -> "launchlock.Unlock"
      [] OTHER -> "none"

\* stop with the launch mutex taken under the registry lock
AfterStopTakesLaunchlock(pc) == IF pc = "stop" THEN {"launchlock"} ELSE {"idle"}

\* stop, lines 207-215: the lock is released when the comparison is done
AfterStop(pc) == IF pc = "stop" THEN {"stop.defer"} ELSE {"idle"}

\* the positions a thread continues at, in the order of the code
Continue(t, pc) ==
    CASE pc = "idle" -> IF t[1] = "serve" THEN {"matchSite"} ELSE {"findSite"}
      [] pc = "matchSite" -> {"matchSite.defer"}
      [] pc = "matchSite.defer" -> {"idle", "serveStatic", "clear", "launchlock", "proxy"}
      [] pc = "serveStatic" -> {"serveStatic.defer"}
      [] pc = "serveStatic.defer" -> {"idle"}
      [] pc = "clear" -> {"clear.defer"}
      [] pc = "clear.defer" -> {"launchlock"}
      [] pc = "launchlock" -> {"recheck"}
      [] pc = "recheck" -> {"launchlock.defer", "bind"}
      [] pc = "bind" -> {"bind.defer"}
      [] pc = "bind.defer" -> {"launchlock.defer"}
      [] pc = "launchlock.defer" -> {"proxy"}
      [] pc = "proxy" -> {"idle", "stop"}
      [] pc \in {"stop", "stop.defer"} -> AfterStop(pc)
      [] pc = "findSite" -> {"findSite.defer"}
      [] pc = "findSite.defer" -> {"files"}
      [] pc = "files" -> {"idle", "addSite"}
      [] pc = "addSite" -> {"addSite.defer"}
      [] pc = "addSite.defer" -> {"idle"}

\* the thread moves on; nothing but its position changes
Goto(t, pc) ==
    /\ pc \in Continue(t, At(t))
    /\ IF t[1] = "serve"
          THEN req' = [req EXCEPT ![t[2]].pc = pc] /\ UNCHANGED adm
          ELSE adm' = [adm EXCEPT ![t[2]].pc = pc] /\ UNCHANGED req
    /\ UNCHANGED <<registry, port, runs, crashed, probe, tlsStore>>

\* sync.RWMutex
RLock(t) ==
    /\ SyncCall(At(t)) = "RLock"
    /\ lock.writer = Nobody
    /\ lock' = [lock EXCEPT !.readers = @ \cup {t}]
    /\ \E pc \in Continue(t, At(t)) : Goto(t, pc)
    /\ UNCHANGED launchlock

RUnlock(t) ==
    /\ SyncCall(At(t)) = "RUnlock"
    /\ lock' = [lock EXCEPT !.readers = @ \ {t}]
    /\ \E pc \in Continue(t, At(t)) : Goto(t, pc)
    /\ UNCHANGED launchlock

Lock(t) ==
    /\ SyncCall(At(t)) = "Lock"
    /\ lock.writer = Nobody /\ lock.readers = {}
    /\ lock' = [lock EXCEPT !.writer = t]
    /\ \E pc \in Continue(t, At(t)) : Goto(t, pc)
    /\ UNCHANGED launchlock

Unlock(t) ==
    /\ SyncCall(At(t)) = "Unlock"
    /\ lock' = [lock EXCEPT !.writer = Nobody]
    /\ \E pc \in Continue(t, At(t)) : Goto(t, pc)
    /\ UNCHANGED launchlock

\* sync.Mutex
LaunchlockLock(t) ==
    /\ SyncCall(At(t)) = "launchlock.Lock"
    /\ launchlock = 0
    /\ launchlock' = t[2]
    /\ \E pc \in Continue(t, At(t)) : Goto(t, pc)
    /\ UNCHANGED lock

LaunchlockUnlock(t) ==
    /\ SyncCall(At(t)) = "launchlock.Unlock"
    /\ launchlock' = 0
    /\ \E pc \in Continue(t, At(t)) : Goto(t, pc)
    /\ UNCHANGED lock

\* the code between two calls
Between(t) ==
    /\ SyncCall(At(t)) = "none"
    /\ \E pc \in Continue(t, At(t)) : Goto(t, pc)
    /\ UNCHANGED <<launchlock, lock>>

LockNext ==
    \E t \in Threads :
        \/ RLock(t)
        \/ RUnlock(t)
        \/ Lock(t)
        \/ Unlock(t)
        \/ LaunchlockLock(t)
        \/ LaunchlockUnlock(t)
        \/ Between(t)

LockSpec == Init /\ [][LockNext]_vars

\* ------------------------------------------------- claims on the registry
SiteIds == 1..Len(sites)

HostsOf(s) == Range(sites[s].hostnames)

VersionsOf(id) == {sites[i].version : i \in {j \in SiteIds : sites[j].id = id}}

MaxOf(S) == CHOOSE x \in S : \A y \in S : y <= x

\* C3 (as stated): once a descriptor t with the id of an older descriptor s
\* and a higher version is added, matchSite(h, "/") returns t for every
\* hostname h of t (t being the newest upload of its id).
C3_NewestMatched ==
    \A s \in SiteIds, t \in SiteIds :
        (/\ sites[s].id = sites[t].id
         /\ sites[s].version < sites[t].version
         /\ \A o \in SiteIds : sites[o].id = sites[t].id => o <= t)
        => \A h \in HostsOf(t) : matchSite(h, Slash)[1] = t

\* another id lists h with a version that sorts at or before t's
Contended(h, t) ==
    \E o \in SiteIds : /\ sites[o].id # sites[t].id
                       /\ h \in HostsOf(o)
                       /\ sites[o].version >= sites[t].version

\* C3 (amended): matchSite(h, "/") never returns the older descriptor s, and
\* unless h is the pseudo-host "localhost" or another id lists h with a
\* version at least t's, it returns a descriptor of t's id with a version at
\* least t's.
C3_OlderNeverMatched ==
    \A s \in SiteIds, t \in SiteIds :
        (sites[s].id = sites[t].id /\ sites[s].version < sites[t].version)
        => \A h \in HostsOf(t) :
              LET m == matchSite(h, Slash)[1]
              IN /\ m # s
                 /\ (h # "localhost" /\ ~Contended(h, t))
                    => /\ m # 0
                       /\ sites[m].id = sites[t].id
                       /\ sites[m].version >= sites[t].version

\* C3 witness: a newer version of an id is installed next to the older one
\* and is what its hostname matches.
C3_Witness ==
    \E s \in SiteIds, t \in SiteIds :
        /\ sites[s].id = sites[t].id
        /\ sites[s].version < sites[t].version
        /\ "h1" \in HostsOf(s) /\ "h1" \in HostsOf(t)
        /\ matchSite("h1", Slash)[1] = t

\* C7: sites holds at most one descriptor for each (id, version).
C7_UniqueIdVersion ==
    \A i \in SiteIds, j \in SiteIds :
        (i # j /\ sites[i].id = sites[j].id) => sites[i].version # sites[j].version

\* C8: the versions installed for an id are 1, then max(existing) + 1, so
\* strictly increasing in the order of the addSite calls.
C8_VersionsIncrease ==
    \A j \in SiteIds :
        LET before == {sites[i].version : i \in {k \in 1..(j - 1) : sites[k].id = sites[j].id}}
        IN sites[j].version = IF before = {} THEN 1 ELSE MaxOf(before) + 1

\* C9 (as stated): every routes[h] is strictly descending by version.
C9_StrictlyDescending ==
    \A h \in Hosts : \A i \in 1..(Len(routes[h]) - 1) :
        sites[routes[h][i]].version > sites[routes[h][i + 1]].version

\* C9 (amended): every routes[h] is descending by version, equal versions
\* allowed.
C9_Descending ==
    \A h \in Hosts : \A i \in 1..(Len(routes[h]) - 1) :
        sites[routes[h][i]].version >= sites[routes[h][i + 1]].version

\* C9 witness: a route list that addSite sorted, holding a step down in
\* version and two adjacent entries of equal version.
C9_Witness ==
    \E h \in Hosts :
        /\ \E i \in 1..(Len(routes[h]) - 1) :
              sites[routes[h][i]].version > sites[routes[h][i + 1]].version
        /\ \E i \in 1..(Len(routes[h]) - 1) :
              sites[routes[h][i]].version = sites[routes[h][i + 1]].version

\* C10: latestSites has exactly one entry for each id ever added, the
\* descriptor of the highest version of that id in sites.
C10_LatestIsHighest ==
    /\ {sites[latestSites[k]].id : k \in 1..Len(latestSites)} = {sites[i].id : i \in SiteIds}
    /\ \A k \in 1..Len(latestSites), l \in 1..Len(latestSites) :
          sites[latestSites[k]].id = sites[latestSites[l]].id => k = l
    /\ \A k \in 1..Len(latestSites) :
          sites[latestSites[k]].version = MaxOf(VersionsOf(sites[latestSites[k]].id))

\* ----------------------------------------- claims on supervisor and proxy
\* positions of serve after the block that takes launchlock
PastEnsure == {"gate", "dial", "write", "read", "copy", "stop", "ret"}

\* positions of serve between working++ and the deferred working--
Proxying == {"dial", "write", "read", "copy", "stop", "ret"}

\* the child was started and is neither killed nor reaped
Alive(r) == runs[r].proc = "live"

\* C1 (as stated): of the requests that wait to launch for a site at the
\* same time, one launches and every one goes on with the RunningSite of
\* that launch.
C1_SingleLaunch ==
    \A r \in RunIds : \A q \in runs[r].cohort :
        req[q].pc \in PastEnsure => req[q].running = r

\* C1 (amended): they all go on with the RunningSite of the one launch,
\* unless site.running was cleared of it (by stop, or with an aged error)
\* before they re-checked.
C1_SingleLaunchWhileBound ==
    \A r \in RunIds : \A q \in runs[r].cohort :
        req[q].pc \in PastEnsure => (req[q].running = r \/ runs[r].unbound)

\* C1 witness: two requests waited for the same launch and both proxy to its
\* RunningSite, which is still bound.
C1_Witness ==
    \E r \in RunIds : \E p \in runs[r].cohort, q \in runs[r].cohort :
        /\ p # q
        /\ req[p].pc \in Proxying /\ req[q].pc \in Proxying
        /\ req[p].running = r /\ req[q].running = r
        /\ running[runs[r].site] = r

\* C2 (as stated): a site has at most one child that is started and not yet
\* killed and reaped.
C2_OneChildPerSite ==
    \A s \in SiteIds :
        Cardinality({r \in RunIds : runs[r].site = s /\ Alive(r)}) <= 1

\* C2 (amended): a site has at most one such child whose RunningSite was not
\* cleared from site.running; children of cleared RunningSites may live on
\* next to it.
C2_OneBoundChildPerSite ==
    \A s \in SiteIds :
        Cardinality({r \in RunIds : runs[r].site = s /\ Alive(r) /\ ~runs[r].unbound}) <= 1

\* C2 witness: a site with a stopped RunningSite that still drains and a
\* newly launched one bound, both children alive.
C2_Witness ==
    \E s \in SiteIds : \E r1 \in RunIds, r2 \in RunIds :
        /\ runs[r1].site = s /\ runs[r2].site = s
        /\ runs[r1].drain = "poll" /\ runs[r1].working > 0 /\ runs[r1].proc = "live"
        /\ running[s] = r2 /\ runs[r2].proc = "live"

\* nothing is under way: no request and no drain task
Quiet ==
    /\ \A p \in Procs : req[p].pc \in {"idle", "done"}
    /\ NoDrain

\* a newer version of the descriptor's id was added
Superseded(s) ==
    \E t \in SiteIds : sites[t].id = sites[s].id /\ sites[t].version > sites[s].version

\* C4: once a newer version is added and the requests on the old backend
\* are over, the old RunningSite is unbound and its child killed: with
\* nothing left under way, no superseded descriptor has a bound RunningSite
\* or a living child.
C4_OldBackendStopped ==
    Quiet =>
        \A s \in SiteIds :
            Superseded(s) => /\ running[s] = 0
                             /\ \A r \in RunIds : runs[r].site = s => ~Alive(r)

\* C5: the drain task kills the child after at most 100 polls of working:
\* past ForceTries tries it is no longer polling.
C5_ForcedKill ==
    \A r \in RunIds : runs[r].tries > ForceTries => runs[r].drain # "poll"

\* C6: working is the number of requests between its increment and their
\* return.
C6_WorkingCounts ==
    \A r \in RunIds :
        runs[r].working = Cardinality({p \in Procs : req[p].pc \in Proxying /\ req[p].running = r})

\* C6 witness: a RunningSite back at zero after two requests proxied to it,
\* one of which left through stop.
C6_Witness ==
    \E r \in RunIds :
        /\ runs[r].working = 0
        /\ runs[r].drain # "none"
        /\ \A p \in Procs : req[p].pc = "done" /\ req[p].status \in {200, 500}
        /\ \E p \in Procs : req[p].status = 200

\* the ids ever added
IdsAdded == {sites[i].id : i \in SiteIds}

\* C11: while one id has been added, routes["localhost"] holds that id's
\* descriptors, every one of them, highest version first; once two or more
\* ids have been added it is empty after every addSite.
C11_LocalhostRule ==
    /\ Cardinality(IdsAdded) = 1
          => /\ Range(routes["localhost"]) = SiteIds
             /\ \A i \in 1..(Len(routes["localhost"]) - 1) :
                   sites[routes["localhost"][i]].version
                       >= sites[routes["localhost"][i + 1]].version
             /\ sites[matchSite("localhost", Slash)[1]].version = MaxOf(VersionsOf(sites[1].id))
    /\ Cardinality(IdsAdded) >= 2 => routes["localhost"] = <<>>

\* C11 witness: a descriptor that lists "localhost" itself was added after
\* a second id had come, and routes["localhost"] is empty.
C11_Witness ==
    \E t \in SiteIds :
        /\ "localhost" \in HostsOf(t)
        /\ Cardinality({sites[i].id : i \in 1..(t - 1)}) >= 2
        /\ routes["localhost"] = <<>>

\* C12: a request that matchSite gave a bound RunningSite without error
\* goes on to proxy to that RunningSite; its steps launch nothing.
C12_ReusesBound ==
    [][\A p \in Procs :
          LET r == req[p].running
          IN (/\ req[p].pc \in {"check", "gate"}
              /\ r # 0
              /\ ~runs[r].error
              /\ req'[p] # req[p])
             => /\ req'[p].running = r
                /\ req'[p].pc = IF req[p].pc = "check" THEN "gate" ELSE "dial"
                /\ Len(runs') = Len(runs)]_vars

\* C12 witness: the one RunningSite, launched by a request that is done, is
\* still bound and a further request, which was not waiting for that launch,
\* proxies to it.
C12_Witness ==
    \E p \in Procs, q \in Procs :
        /\ Len(runs) = 1
        /\ req[q].pc = "done" /\ req[q].status = 200
        /\ req[p].pc = "dial" /\ req[p].running = 1
        /\ p \notin runs[1].cohort
        /\ running[req[p].site] = 1
        /\ runs[1].working = 1

\* the request streams a backend response of status 500 or more (the only
\* way to the copy with that status)
Streams5xx(p) == req[p].pc = "copy" /\ req[p].status = 500

\* C13: a request whose backend answered 5xx has had stop clear its
\* RunningSite from site.running, the client is given that status, and no
\* request takes up a RunningSite that was cleared: the next request to the
\* site gets another one.
C13_FreshAfter5xx ==
    /\ [](\A p \in Procs :
             Streams5xx(p) => /\ runs[req[p].running].unbound
                              /\ running[req[p].site] # req[p].running)
    /\ [][\A p \in Procs :
             /\ (Streams5xx(p) /\ req'[p].pc = "done") => req'[p].status = 500
             /\ (Streams5xx(p) /\ req'[p].pc = "ret") => req'[p].status = 500
             /\ (req'[p].running # req[p].running /\ req'[p].running # 0)
                    => ~runs'[req'[p].running].unbound]_vars

\* C13 witness: one request still streams the 5xx of a RunningSite while
\* another request to the same site proxies to a different, later one.
C13_Witness ==
    \E p \in Procs, q \in Procs :
        /\ Streams5xx(p)
        /\ req[q].site = req[p].site
        /\ req[q].pc \in Proxying
        /\ req[q].running > req[p].running
        /\ runs[req[q].running].proc = "live"

\* the descriptors served from files: no command
Static(s) == sites[s].command = ""

\* C14: a static site has no RunningSite, bound or launched, and no request
\* to it enters the supervisor; a request that finds no bound RunningSite
\* on a site with a command goes to launchlock, and with site.running still
\* nil there it calls launch, which makes a RunningSite for that site.
C14_StaticNeverLaunched ==
    /\ [](\A s \in SiteIds :
             Static(s) => /\ running[s] = 0
                          /\ \A r \in RunIds : runs[r].site # s
                          /\ \A p \in Procs : req[p].site # s)
    /\ [][\A p \in Procs :
             req'[p] # req[p] =>
                 /\ (req[p].pc = "check" /\ req[p].running = 0) => req'[p].pc = "lock"
                 /\ (req[p].pc = "lock" /\ running[req[p].site] = 0) => req'[p].pc = "launch"
                 /\ req[p].pc = "launch"
                        => /\ Len(runs') = Len(runs) + 1
                           /\ runs'[Len(runs')].site = req[p].site
                           /\ ~Static(req[p].site)]_vars

\* C14 witness: a static descriptor and a descriptor with a command, the
\* second with a launched child, and a request answered from files after it.
C14_Witness ==
    \E s \in SiteIds, t \in SiteIds :
        /\ Static(t) /\ ~sites[t].httpsOnly
        /\ matchSite("h1", Slash)[1] = t
        /\ ~Static(s) /\ \E r \in RunIds : runs[r].site = s
        /\ req[1].pc = "done" /\ req[1].status = 200 /\ req[1].redirect = <<>>
        /\ \A r \in RunIds : runs[r].working = 0 /\ runs[r].drain = "none"

\* C15: the 302 to plain http on an httpsOnly site has the Location
\* https://<host><path>, of the request's host (the Host header without its
\* port, if it has one) and the request's path.
C15_RedirectLocation ==
    \A p \in Procs :
        req[p].status = 302
            => req[p].redirect.location
                   = <<"https", req[p].redirect.host[1], req[p].redirect.path>>

\* C16: a request leaves the dial either with a connection, on to the write
\* of the request, or with a 500 and a call of stop, and the second only
\* once WarmupSeconds have passed since RunningSite.start; that stop leaves
\* the RunningSite cleared from site.running.
C16_WarmupWindow ==
    [][\A p \in Procs :
          req'[p] # req[p] =>
              /\ req[p].pc = "dial"
                    => \/ req'[p].pc = "write" /\ req'[p].running = req[p].running
                       \/ /\ req'[p].pc = "stop" /\ req'[p].after = "ret"
                          /\ req'[p].status = 500
                          /\ Since(req[p].running) >= WarmupSeconds
              /\ req[p].pc = "stop"
                    => /\ running'[req[p].site] # req[p].running
                       /\ runs'[req[p].running].unbound]_vars

\* C16 witness: a request about to call stop with a 500 for a RunningSite
\* that is still bound, WarmupSeconds after its start, the child running.
C16_Witness ==
    \E p \in Procs :
        /\ req[p].pc = "stop" /\ req[p].after = "ret" /\ req[p].status = 500
        /\ running[req[p].site] = req[p].running
        /\ Since(req[p].running) = WarmupSeconds
        /\ runs[req[p].running].proc = "live"

\* C17: a FileMessage of exactly FileSizeLimit bytes is accepted, the upload
\* goes on; one of FileSizeLimit + 1 ends the upload with nothing added to
\* the registry; and no upload that installs its site has read a larger
\* file.
C17_FileSizeLimit ==
    [][\A u \in Admins :
          /\ (adm[u].pc = "upload" /\ adm'[u].fileSize # adm[u].fileSize /\ ~adm'[u].dir)
                => /\ adm'[u].fileSize <= FileSizeLimit => adm'[u].pc = "upload"
                   /\ adm'[u].fileSize > FileSizeLimit
                         => adm'[u].pc = "idle" /\ UNCHANGED registry
          /\ (adm[u].pc = "upload" /\ Len(sites') > Len(sites))
                => adm[u].fileSize <= FileSizeLimit]_vars

\* C17 witness: one upload was ended by a file of FileSizeLimit + 1 bytes
\* and added nothing, another has taken a file of exactly FileSizeLimit
\* bytes and goes on.
C17_Witness ==
    /\ adm[1].pc = "idle" /\ adm[1].fileSize = FileSizeLimit + 1
    /\ sites = <<>>
    /\ adm[2].pc = "upload" /\ adm[2].fileSize = FileSizeLimit

\* the bits of an os.FileMode that are honored: the nine rwx bits, sticky
\* (bit 20), setgid (bit 22) and setuid (bit 23)
HonoredBits == (0..8) \cup {20, 22, 23}

\* C18: the mode a file or directory of the upload is made with is 0664
\* (file) or 0755 (directory) for perm 0, 0 for perm -1, and for any other
\* perm has exactly the honored bits that perm has, and no other bit.
C18_CleanPerm ==
    \A u \in Admins :
        (adm[u].pc = "upload" /\ (adm[u].mode # 0 \/ adm[u].perm # 0)) =>
            LET perm == adm[u].perm
                mode == adm[u].mode
            IN /\ perm = 0 => mode = IF adm[u].dir THEN DefaultDirPerm ELSE DefaultFilePerm
               /\ perm = -1 => mode = 0
               /\ perm \notin {0, -1}
                     => /\ mode >= 0
                        /\ \A i \in 0..30 :
                              Bit(mode, i) = IF i \in HonoredBits THEN Bit(perm, i) ELSE 0

\* C18 witness: a directory asked for with the unix mode 04755 is made with
\* 0755, the rwx bits of it: bit 11 is not among the honored ones.
C18_Witness ==
    /\ adm[1].pc = "upload" /\ adm[1].dir
    /\ adm[1].perm = 2541 /\ adm[1].mode = 493

\* p is the beginning of s
IsPrefix(p, s) ==
    /\ Len(p) <= Len(s)
    /\ \A i \in 1..Len(p) : s[i] = p[i]

\* p is the end of s
IsSuffix(p, s) ==
    /\ Len(p) <= Len(s)
    /\ \A i \in 1..Len(p) : s[Len(s) - Len(p) + i] = p[i]

\* C19: StartsWith(s, p) is true exactly when p is a prefix of s and
\* EndsWith(s, p) exactly when p is a suffix of s; both are true of the
\* empty p and false of a p longer than s.
C19_PrefixSuffix ==
    probe.result # "" =>
        /\ probe.fn = "StartsWith" => probe.result = Bool(IsPrefix(probe.p, probe.s))
        /\ probe.fn = "EndsWith" => probe.result = Bool(IsSuffix(probe.p, probe.s))
        /\ probe.p = <<>> => probe.result = "true"
        /\ Len(probe.p) > Len(probe.s) => probe.result = "false"

\* C19 witness: EndsWith of a string and a shorter postfix that is not also
\* its prefix has answered true.
C19_Witness ==
    /\ probe.fn = "EndsWith" /\ probe.result = "true"
    /\ probe.s = <<"/", "a", "a">> /\ probe.p = <<"a", "a">>

\* the requests that are inside launch: they hold launchlock, found
\* site.running nil and have not yet bound the new RunningSite
Launching == {p \in Procs : req[p].pc = "launch"}

\* C20: at most one execution of launch is in progress, over all sites and
\* requests, and the request in it holds launchlock.
C20_OneLaunchAtATime ==
    /\ Cardinality(Launching) <= 1
    /\ \A p \in Launching : launchlock = p

\* C20 witness: one request is inside launch while another, which also found
\* no RunningSite, waits for launchlock.
C20_Witness ==
    \E p \in Procs, q \in Procs :
        /\ req[p].pc = "launch"
        /\ req[q].pc = "lock" /\ req[q].running = 0
        /\ launchlock = p

\* the request holds a RunningSite whose launch failed
HoldsErrored(p) == req[p].running # 0 /\ runs[req[p].running].error

\* C21: a request that finds an errored RunningSite less than
\* ErrorRetrySeconds after its start is answered 500 and launches nothing;
\* one that finds it ErrorRetrySeconds or more after its start clears
\* site.running and goes to launchlock, and with site.running still nil
\* there it makes one launch, whose RunningSite it binds.
C21_ErrorBackoff ==
    [][\A p \in Procs :
          req'[p] # req[p] =>
              /\ (req[p].pc = "check" /\ HoldsErrored(p)
                    /\ Since(req[p].running) < ErrorRetrySeconds)
                    => /\ req'[p].pc = "gate" /\ req'[p].running = req[p].running
                       /\ runs' = runs /\ running' = running
              /\ (req[p].pc = "gate" /\ HoldsErrored(p))
                    => /\ req'[p].pc = "done" /\ req'[p].status = 500
                       /\ Len(runs') = Len(runs) /\ running' = running
              /\ (req[p].pc = "check" /\ HoldsErrored(p)
                    /\ Since(req[p].running) >= ErrorRetrySeconds)
                    => /\ req'[p].pc = "lock" /\ req'[p].running = 0
                       /\ running'[req[p].site] = 0
                       /\ Len(runs') = Len(runs)
              /\ (req[p].pc = "lock" /\ running[req[p].site] = 0)
                    => req'[p].pc = "launch" /\ Len(runs') = Len(runs)
              /\ req[p].pc = "launch"
                    => /\ Len(runs') = Len(runs) + 1
                       /\ running'[req[p].site] = Len(runs')
                       /\ req'[p].pc = "gate" /\ req'[p].running = Len(runs')]_vars

\* C21 witness: the first launch of a site failed, ErrorRetrySeconds have
\* passed, and a request has cleared the errored RunningSite and is inside
\* the new launch.
C21_Witness ==
    \E p \in Procs :
        /\ req[p].pc = "launch"
        /\ Len(runs) = 1 /\ runs[1].error /\ runs[1].unbound
        /\ runs[1].site = req[p].site
        /\ Since(1) >= ErrorRetrySeconds
        /\ running[req[p].site] = 0

\* the request failed at the dial, the write or the read of the response and
\* is about to call stop, or has called it and is about to return
FailedBackend(p) ==
    /\ req[p].status = 500
    /\ \/ req[p].pc = "stop" /\ req[p].after = "ret"
       \/ req[p].pc = "ret"

\* C22: the dial, the write and the read either go on to the next stage or,
\* failing, set the status 500 and call stop; stop leaves the RunningSite
\* cleared from site.running; the request then returns with the 500,
\* without another launch, dial or forward.
C22_NoRetryAfterFailure ==
    [][\A p \in Procs :
          req'[p] # req[p] =>
              /\ req[p].pc = "dial" => req'[p].pc = "write" \/ FailedBackend(p)'
              /\ req[p].pc = "write" => req'[p].pc = "read" \/ FailedBackend(p)'
              /\ req[p].pc = "read"
                    => \/ req'[p].pc = "copy" /\ req'[p].status = 200
                       \/ req'[p].pc = "stop" /\ req'[p].after = "copy" /\ req'[p].status = 500
                       \/ FailedBackend(p)'
              /\ (FailedBackend(p) /\ req[p].pc = "stop")
                    => /\ FailedBackend(p)' /\ req'[p].pc = "ret"
                       /\ running'[req[p].site] # req[p].running
                       /\ runs'[req[p].running].unbound
                       /\ Len(runs') = Len(runs)
              /\ (FailedBackend(p) /\ req[p].pc = "ret")
                    => /\ req'[p].pc = "done" /\ req'[p].status = 500
                       /\ Len(runs') = Len(runs)]_vars

\* C22 witness: a request whose backend I/O failed inside the warm-up time
\* has called stop, which cleared its RunningSite and started the drain
\* task, and is about to return with the 500.
C22_Witness ==
    \E p \in Procs :
        /\ FailedBackend(p) /\ req[p].pc = "ret"
        /\ Since(req[p].running) < WarmupSeconds
        /\ runs[req[p].running].drain = "poll"
        /\ runs[req[p].running].working = 1
        /\ running[req[p].site] = 0

\* stop(site, r, _) was called by request p and has returned
Stopped(p) ==
    \/ FailedBackend(p) /\ req[p].pc = "ret"
    \/ Streams5xx(p)

\* C23: of the calls of stop for a RunningSite one clears site.running and
\* starts the teardown task: once a call of stop for it has returned, its
\* teardown task has been started.
C23_StopOwnsTeardown ==
    \A p \in Procs : Stopped(p) => runs[req[p].running].drain # "none"

\* ---------------------------------------------------- claims on the locks
Holds(t) == lock.writer = t \/ t \in lock.readers

HoldsLaunchlock(t) == t[1] = "serve" /\ launchlock = t[2]

\* the threads a thread waits for at its position: the holders of the lock
\* it calls for (a reader also waits behind a writer that waits for readers)
WaitsFor(t) ==
    CASE SyncCall(At(t)) = "Lock" ->
             {h \in Threads : Holds(h)}
      [] SyncCall(At(t)) = "RLock" ->
             {h \in Threads : lock.writer = h}
             \cup {w \in Threads : lock.readers # {} /\ SyncCall(At(w)) = "Lock"}
      [] SyncCall(At(t)) = "launchlock.Lock" ->
             {h \in Threads : HoldsLaunchlock(h)}
      [] OTHER -> {}

\* every thread of S waits for a thread of S
Deadlocked(S) == S # {} /\ \A t \in S : WaitsFor(t) \cap S # {}

\* C24: no thread calls launchlock.Lock() while it holds the registry lock,
\* and no set of threads in serve, stop, addSite, findSite and matchSite wait
\* for each other.
C24_LockOrder ==
    /\ \A t \in Threads : Holds(t) => SyncCall(At(t)) # "launchlock.Lock"
    /\ \A S \in SUBSET Threads : ~Deadlocked(S)

\* a request holds launchlock and the registry lock, a second request waits
\* for launchlock and an admin connection waits for the registry lock
C24_Witness ==
    /\ HoldsLaunchlock(<<"serve", 1>>) /\ lock.writer = <<"serve", 1>>
    /\ At(<<"serve", 2>>) = "launchlock"
    /\ At(<<"admin", 1>>) = "addSite"

\* ------------------------------------------------ claims on site.running
\* the RunningSite values that site.running of some site points to
Bound == {running[s] : s \in {i \in DOMAIN running : running[i] # 0}}

\* C25 (as stated): site.running is nil or a RunningSite whose child process
\* has been started, also after a launch that failed.
C25_BoundStarted ==
    \A r \in Bound : runs[r].proc # "none"

\* C25 (amended): site.running is nil, a RunningSite whose child process has
\* been started, or a RunningSite with error set, which a failed launch
\* leaves with or without a child.
C25_BoundStartedOrError ==
    \A r \in Bound : runs[r].proc # "none" \/ runs[r].error

\* a launch failed before cmd.Start() and its RunningSite is in site.running
C25_Witness ==
    \E r \in Bound : runs[r].proc = "none" /\ runs[r].error

\* -------------------------------------------- claims on the response header
\* WriteHeader(res.StatusCode) has just sent the header of a proxied response
Relayed(p) ==
    \/ req[p].pc = "copy"
    \/ req[p].pc = "stop" /\ req[p].after = "copy"

\* C26: the response to a proxied request that arrived over TLS carries
\* Strict-Transport-Security: max-age=63072000; includeSubDomains when it is
\* written to the client.
C26_SecureHeaderSent ==
    \A p \in Procs :
        Relayed(p) /\ req[p].tls => HSTS \in Range(req[p].sent["Strict-Transport-Security"])

\* ------------------------------------------------ claims on failed uploads
\* the step in which the upload of connection u fails: the handler returns
\* without Status{true}, or the process ends inside the handler
UploadFails(u) ==
    /\ adm[u].pc = "upload"
    /\ \/ adm'[u].pc = "idle" /\ adm'[u].status # "true"
       \/ crashed' /\ adm'[u] # adm[u]

\* C27: when an admin upload fails after the bundle directory was created
\* and before the final Status, the bundle directory is removed, Status{false,
\* msg} is written and addSite is not called: sites, latestSites and routes
\* are unchanged.
C27_FailedUploadRolledBack ==
    [][\A u \in Admins :
           UploadFails(u) => /\ adm'[u].base = "removed"
                             /\ adm'[u].status = "false"
                             /\ UNCHANGED registry]_vars

\* ------------------------------------------------------ claims on the ports
\* C28: every launch draws a port greater than all ports drawn before,
\* the first one 15001, so no two RunningSite values have the same addr.
C28_PortsIncrease ==
    /\ \A r \in RunIds : runs[r].addr > FirstPort /\ runs[r].addr <= port
    /\ runs # <<>> => runs[1].addr = FirstPort + 1
    /\ \A r1, r2 \in RunIds : r1 < r2 => runs[r1].addr < runs[r2].addr

\* two launches were made and the children of both are alive
C28_Witness ==
    /\ Len(runs) = 2
    /\ runs[1].proc = "live" /\ runs[2].proc = "live"
    /\ runs[1].addr = 15001 /\ runs[2].addr = 15002

\* ------------------------------------------------------ claims on the wire
\* C29: a stream of WriteJSON0 messages, each FileMessage of a file followed
\* by size bytes of content that may contain NUL, is decoded by ReadJSON0
\* and the size-limited read into the same messages and contents: each
\* ReadJSON0 consumes one message with its NUL and leaves the bytes after it
\* unread.
C29_Framing ==
    probe.fn = "ReadJSON0" =>
        LET n == Len(probe.got)
            files == probe.files
        IN /\ probe.result # "error"
           /\ n <= Len(files)
           /\ \A i \in 1..n :
                  /\ FileMessageOf(probe.got[i]) = FileMessageOf(files[i])
                  /\ i < n \/ probe.content => probe.got[i].content = files[i].content
           /\ probe.result = "done" => n = Len(files) /\ probe.in = <<>>
           /\ probe.result = "" =>
                  probe.in = (IF probe.content THEN <<>> ELSE files[n].content)
                             \o Stream(SubSeq(files, n + 1, Len(files)))

\* the handler has read to the end of an upload of two files, the first with
\* a NUL in its name and in its content
C29_Witness ==
    /\ probe.fn = "ReadJSON0" /\ probe.result = "done"
    /\ Len(probe.got) = 2
    /\ probe.got[1].name = <<NUL, "a">> /\ probe.got[1].content = <<NUL, "a">>
    /\ probe.got[2].name = <<"\"">> /\ probe.got[2].content = <<NUL>>

\* ------------------------------------------- claims on the certificate store
\* C30: after any interleaving of addCertificate, removeCertificate and
\* hasCertificate, certHashes has no id twice and is as long as the list of
\* certificates, the certificate at each index being the one of the id at
\* that index; addCertificate with an id already there changes nothing.
C30_CertStore ==
    /\ [](/\ Len(certHashes) = Len(certificates)
          /\ \A i, j \in 1..Len(certHashes) : certHashes[i] = certHashes[j] => i = j
          /\ \A i \in 1..Len(certHashes) : certificates[i] = X509KeyPair(certHashes[i]))
    /\ [][\A hash \in CertIds :
              hasCertificate(hash) /\ addCertificate(X509KeyPair(hash), hash)
                  => UNCHANGED tlsStore]_vars

\* after ids were added and the first one removed, addCertificate was called
\* with an id that is there and returned
C30_Witness ==
    /\ probe.fn = "addCertificate" /\ probe.result = "return" /\ probe.s = <<3>>
    /\ certHashes = <<<<2>>, <<3>>>>

\* ------------------------------------------- claims on the running reference
\* C31: after the block of serve that takes launchlock, re-checks
\* site.running and possibly launches, the running reference of the request
\* is never nil.
C31_RunningNotNil ==
    \A p \in Procs : req[p].pc \in PastEnsure => req[p].running # 0

\* C32: every RunningSite whose child was started is bound to its site by
\* site.running or owned by a teardown task that will kill it; clearing an
\* aged errored RunningSite never unbinds another RunningSite.
C32_BoundOrTornDown ==
    \A r \in RunIds :
        Alive(r) => running[runs[r].site] = r \/ runs[r].drain \in {"poll", "kill"}

\* C33: once the teardown task of a RunningSite has read working == 0 and
\* killed its child, no request increments its working or dials its addr: a
\* request between working++ and the dial never holds a RunningSite whose
\* teardown task is past its loop.
C33_NoProxyAfterKill ==
    \A p \in Procs :
        req[p].pc = "dial" => runs[req[p].running].drain \notin {"kill", "done"}

\* ------------------------------------------------ claims on the installation
\* the handler of connection u has written Status{true} and not yet returned
StatusWritten(u) == adm[u].pc # "idle" /\ adm[u].status = "true"

\* serve of request p calls matchSite in this step and goes on with what it
\* returned
Matches(p) == req[p].pc \in {"idle", "done"} /\ req'[p] # req[p]

\* C34: when the handler has written Status{true} for an upload, the
\* descriptor is installed: a matchSite for one of its hostnames that starts
\* after that returns the new descriptor.
C34_InstalledAtStatus ==
    [][\A u \in Admins, p \in Procs :
           StatusWritten(u) /\ Matches(p)
               => /\ req'[p].pc = "check"
                  /\ sites[req'[p].site].id = adm[u].app.name
                  /\ sites[req'[p].site].version = adm[u].version]_vars

\* ------------------------------------------------ claims on the admin port
\* C35: no sequence of admin connections and messages terminates the server
\* process; a malformed or conflicting upload ends in Status{false} for its
\* connection only.
C35_ServerSurvivesUploads == ~crashed
====
